---- MODULE Spec2Model ----
(***************************************************************************)
(* Model of green-route-india: the de-duplication pass of getRoutes        *)
(* (src/services/geminiService.ts) and the search screen state of App      *)
(* (src/App.tsx).                                                          *)
(*                                                                         *)
(* A RouteOption object is a record; a property the JSON did not carry is  *)
(* a field that is absent from the record's DOMAIN (JavaScript undefined). *)
(* Strings that the code transforms (titles, signature keys) are sequences *)
(* of one-character strings.  Numbers are integers; co2Saved is counted in *)
(* tenths of a kilogram.                                                   *)
(***************************************************************************)
EXTENDS Integers, Sequences, FiniteSets, TLC

\* Longest raw response (number of candidate routes) that is enumerated.
MaxLen == 3

VARIABLES
  \* ---- getRoutes (src/services/geminiService.ts) ----
  jsonStr,          \* response.text: the text the service answered with
  rawRoutes,        \* JSON.parse(jsonStr): the route objects, by position
  uniqueRoutes,     \* references (positions in rawRoutes) of the kept objects
  seenSignatures,   \* Set<string> of signature keys
  idx,              \* position of the for-of iterator in rawRoutes
  pc,               \* control point of getRoutes
  \* ---- App (src/App.tsx) ----
  searchParams, routes, loading, searched, error, showComparison,
  sortBy, sortOrder,
  pending,          \* arguments of the getRoutes calls handleSearch awaits
  \* ---- AddressAutocomplete (src/components/AddressAutocomplete.tsx) ----
  value, city,      \* props: the text of the field and the selected city
  suggestions, showSuggestions, isLoading, isLocating,
  timers,           \* the timeouts that are set: time left and closure
  lookups,          \* the queries of the search fetches that are in flight
  unchangedFor,     \* time since value, city or showSuggestions last changed
  \* ---- RouteCard (src/components/RouteCard.tsx) ----
  cards             \* by list position (the React key): the state of a card

getRoutesVars == <<jsonStr, rawRoutes, uniqueRoutes, seenSignatures, idx, pc>>
appVars == <<searchParams, routes, loading, searched, error, showComparison,
             sortBy, sortOrder, pending>>
addressVars == <<value, city, suggestions, showSuggestions, isLoading,
                 isLocating, timers, lookups, unchangedFor>>
cardVars == <<cards>>
vars == <<jsonStr, rawRoutes, uniqueRoutes, seenSignatures, idx, pc,
          searchParams, routes, loading, searched, error, showComparison,
          sortBy, sortOrder, pending,
          value, city, suggestions, showSuggestions, isLoading,
          isLocating, timers, lookups, unchangedFor, cards>>

(***************************************************************************)
(* JavaScript string and number conversions used by the signature key.     *)
(***************************************************************************)
Has(obj, f) == f \in DOMAIN obj

\* String.prototype.toLowerCase, one character (the alphabet of the titles)
LowerChar(c) ==
  CASE c = "A" -> "a"
    [] c = "B" -> "b"
    [] OTHER -> c

toLowerCase(s) == [k \in 1..Len(s) |-> LowerChar(s[k])]

IsWhiteSpace(c) == c = " "

RECURSIVE trimStart(_)
trimStart(s) ==
  IF s = <<>> THEN s
  ELSE IF IsWhiteSpace(Head(s)) THEN trimStart(Tail(s)) ELSE s

RECURSIVE trimEnd(_)
trimEnd(s) ==
  IF s = <<>> THEN s
  ELSE IF IsWhiteSpace(s[Len(s)]) THEN trimEnd(SubSeq(s, 1, Len(s) - 1)) ELSE s

\* String.prototype.trim
trim(s) == trimEnd(trimStart(s))

DigitChar(d) == <<"0", "1", "2", "3", "4", "5", "6", "7", "8", "9">>[d + 1]

RECURSIVE Digits(_)
Digits(n) ==
  IF n < 10 THEN <<DigitChar(n)>>
  ELSE Digits(n \div 10) \o <<DigitChar(n % 10)>>

\* Number::toString of an integer
NumberToString(n) == IF n < 0 THEN <<"-">> \o Digits(0 - n) ELSE Digits(n)

\* ${obj.f} inside a template literal: an absent property prints "undefined"
TemplateValue(obj, f) ==
  IF Has(obj, f) THEN NumberToString(obj[f])
  ELSE <<"u", "n", "d", "e", "f", "i", "n", "e", "d">>

\* a key that forgets to trim the title
SignatureKeyUntrimmed(route) ==
  toLowerCase(route.title) \o <<"|">> \o TemplateValue(route, "totalCost")
    \o <<"|">> \o TemplateValue(route, "totalDuration")

\* `${route.title.toLowerCase().trim()}|${route.totalCost}|${route.totalDuration}`
\* (defined for an object that has a title)
SignatureKey(route) ==
  trim(toLowerCase(route.title)) \o <<"|">> \o TemplateValue(route, "totalCost")
    \o <<"|">> \o TemplateValue(route, "totalDuration")

\* new Set(array) followed by Array.from: the elements in first-insertion order
RECURSIVE SetInsertAll(_, _)
SetInsertAll(acc, arr) ==
  IF arr = <<>> THEN acc
  ELSE SetInsertAll(IF \E k \in 1..Len(acc) : acc[k] = Head(arr)
                    THEN acc ELSE Append(acc, Head(arr)),
                    Tail(arr))

ArrayFromSet(arr) == SetInsertAll(<<>>, arr)

(***************************************************************************)
(* The de-duplication loop of getRoutes.                                   *)
(***************************************************************************)
\* uniqueRoutes.find(r => key(r) === key): the first kept reference whose
\* object has the key, 0 when there is none (undefined)
FindExisting(heap, unique, key) ==
  IF \E k \in 1..Len(unique) : SignatureKey(heap[unique[k]]) = key
  THEN unique[CHOOSE k \in 1..Len(unique) :
                /\ SignatureKey(heap[unique[k]]) = key
                /\ \A j \in 1..(k - 1) : SignatureKey(heap[unique[j]]) # key]
  ELSE 0

\* [...existing.tags, ...route.tags] throws a TypeError when either operand
\* is undefined (not iterable)
SpreadThrows(existing, route) == ~Has(existing, "tags") \/ ~Has(route, "tags")

\* the two lists concatenated without going through a Set
CombinedTagsConcat(existing, route) == existing.tags \o route.tags

\* Array.from(new Set([...existing.tags, ...route.tags]))
CombinedTags(existing, route) == ArrayFromSet(existing.tags \o route.tags)

\* a merge that copies the duplicate over the kept object
MergeTagsOverwrite(heap, e, p) ==
  [heap EXCEPT ![e] =
     [f \in DOMAIN heap[p] |->
        IF f = "tags" THEN CombinedTags(heap[e], heap[p]) ELSE heap[p][f]]]

\* a merge that stores the combined tags on the duplicate
MergeTagsIntoDuplicate(heap, e, p) ==
  [heap EXCEPT ![p] =
     [f \in DOMAIN heap[p] |->
        IF f = "tags" THEN CombinedTags(heap[e], heap[p]) ELSE heap[p][f]]]

\* existing.tags = Array.from(combinedTags): the kept object (reference e) is
\* updated in place, p is the duplicate
MergeTags(heap, e, p) ==
  [heap EXCEPT ![e] =
     [f \in DOMAIN heap[e] \cup {"tags"} |->
        IF f = "tags" THEN CombinedTags(heap[e], heap[p]) ELSE heap[e][f]]]

\* unshift instead of push
PushUniqueFront(unique, p) == <<p>> \o unique

\* uniqueRoutes.push(route): the array keeps a reference to the raw object
PushUnique(unique, p) == Append(unique, p)

\* One iteration of `for (const route of rawRoutes)` on the object at
\* position p.  st = [heap, unique, seen, threw].
LoopBody(st, p) ==
  LET route == st.heap[p] IN
  IF ~Has(route, "title")
  THEN [st EXCEPT !.threw = TRUE]    \* route.title.toLowerCase(): TypeError
  ELSE
    LET key == SignatureKey(route) IN
    IF key \in st.seen
    THEN
      LET e == FindExisting(st.heap, st.unique, key) IN
      IF e = 0 THEN st
      ELSE IF SpreadThrows(st.heap[e], route)
      THEN [st EXCEPT !.threw = TRUE]
      ELSE [st EXCEPT !.heap = MergeTags(st.heap, e, p)]
    ELSE [st EXCEPT !.seen = st.seen \cup {key},
                    !.unique = PushUnique(st.unique, p)]

\* The array a caller sees: the kept references dereferenced
Deref(heap, unique) == [k \in 1..Len(unique) |-> heap[unique[k]]]

\* a loop that stops one element early
RECURSIVE RunLoopShort(_, _)
RunLoopShort(st, p) ==
  IF st.threw \/ p >= Len(st.heap) THEN st
  ELSE RunLoopShort(LoopBody(st, p), p + 1)

RECURSIVE RunLoop(_, _)
RunLoop(st, p) ==
  IF st.threw \/ p > Len(st.heap) THEN st
  ELSE RunLoop(LoopBody(st, p), p + 1)

\* The whole pass on an already parsed array: [threw |-> TRUE] or the
\* returned array
Dedup(raw) ==
  LET st == RunLoop([heap |-> raw, unique |-> <<>>, seen |-> {}, threw |-> FALSE], 1)
  IN IF st.threw THEN [threw |-> TRUE, value |-> <<>>]
     ELSE [threw |-> FALSE, value |-> Deref(st.heap, st.unique)]

(***************************************************************************)
(* Responses of the generation service that are enumerated.                *)
(***************************************************************************)
Step == [mode |-> "Metro", instruction |-> "Take Metro Line 1", duration |-> 10]

\* What the candidate at position p carries besides its signature and tags
Payload(p) ==
  [id |-> "r" \o ToString(p), co2Emitted |-> p, timeSaved |-> 3 - p,
   moneySaved |-> 100 * p, co2Saved |-> 10 + p, score |-> 50 + p,
   steps |-> [k \in 1..p |-> Step]]

Shape(title, cost, duration, tags) ==
  [title |-> title, totalCost |-> cost, totalDuration |-> duration, tags |-> tags]

Without(obj, f) == [g \in DOMAIN obj \ {f} |-> obj[g]]

MetroWalk == Shape(<<"A", "b">>, 40, 35, <<"Fastest">>)

RawShapes ==
  { MetroWalk,
    Shape(<<"a", "b", " ">>, 40, 35, <<"Cheapest">>),
    Shape(<<" ", "A", "B">>, 40, 35, <<"Fastest", "Greenest">>),
    Shape(<<"a", "b">>, 40, 20, <<"Cheapest", "Cheapest">>),
    Shape(<<"b", "|", "4">>, 0, 35, <<"Greenest">>),
    Shape(<<"B">>, 0, 50, <<>>),
    Without(MetroWalk, "tags"),
    Without(Shape(<<"A", "b">>, 40, 35, <<"Cheapest">>), "totalCost"),
    Without(MetroWalk, "title"),
    Without(Shape(<<"A", "b">>, 40, 35, <<"Greenest">>), "totalDuration") }

Candidates(s) == [p \in 1..Len(s) |-> s[p] @@ Payload(p)]

RawArrays ==
  { Candidates(s) : s \in UNION { [1..n -> RawShapes] : n \in 0..MaxLen } }

JsonTexts ==
  { [kind |-> "empty", value |-> <<>>], [kind |-> "malformed", value |-> <<>>] }
    \cup { [kind |-> "array", value |-> a] : a \in RawArrays }

(***************************************************************************)
(* getRoutes after the service has answered (lines 85-122).                *)
(***************************************************************************)
InitGetRoutes ==
  /\ jsonStr \in JsonTexts
  /\ rawRoutes = <<>>
  /\ uniqueRoutes = <<>>
  /\ seenSignatures = {}
  /\ idx = 1
  /\ pc = "text"

\* if (!jsonStr) return [];
ReturnEmpty ==
  /\ pc = "text"
  /\ jsonStr.kind = "empty"
  /\ pc' = "returned"
  /\ UNCHANGED <<jsonStr, rawRoutes, uniqueRoutes, seenSignatures, idx>>

\* const rawRoutes = JSON.parse(jsonStr); a SyntaxError goes to the catch
ParseJson ==
  /\ pc = "text"
  /\ jsonStr.kind # "empty"
  /\ IF jsonStr.kind = "malformed"
     THEN pc' = "catch" /\ UNCHANGED rawRoutes
     ELSE pc' = "for" /\ rawRoutes' = jsonStr.value
  /\ UNCHANGED <<jsonStr, uniqueRoutes, seenSignatures, idx>>

LoopState ==
  [heap |-> rawRoutes, unique |-> uniqueRoutes, seen |-> seenSignatures,
   threw |-> FALSE]

\* one iteration of the for-of loop
ForOf ==
  /\ pc = "for"
  /\ idx <= Len(rawRoutes)
  /\ LET st == LoopBody(LoopState, idx) IN
       /\ rawRoutes' = st.heap
       /\ uniqueRoutes' = st.unique
       /\ seenSignatures' = st.seen
       /\ IF st.threw THEN pc' = "catch" /\ idx' = idx
          ELSE pc' = "for" /\ idx' = idx + 1
  /\ UNCHANGED jsonStr

\* return uniqueRoutes;
ReturnUnique ==
  /\ pc = "for"
  /\ idx > Len(rawRoutes)
  /\ pc' = "returned"
  /\ UNCHANGED <<jsonStr, rawRoutes, uniqueRoutes, seenSignatures, idx>>

\* catch (error) { console.error(...); throw error; }
CatchRethrow ==
  /\ pc = "catch"
  /\ pc' = "rejected"
  /\ UNCHANGED <<jsonStr, rawRoutes, uniqueRoutes, seenSignatures, idx>>

\* the value getRoutes resolves with
Returned == Deref(rawRoutes, uniqueRoutes)

\* JavaScript null, as the value of the error state
Null == "null"

\* the useState initial values of App; no getRoutes call is outstanding
\* the 400 of setTimeout(..., 400), in milliseconds
DebounceMs == 400

\* the city names an address field is given
Mumbai == <<"M", "u", "m", "b", "a", "i">>
Pune == <<"P", "u", "n", "e">>

\* the timeout an effect run sets: the time left, and the props and state
\* its callback closes over
Timeout(v, c, show) ==
  [left |-> DebounceMs, value |-> v, city |-> c, showSuggestions |-> show]

\* an address field after it was mounted: the first effect run has set its
\* timeout
InitAddress ==
  /\ value = <<>>
  /\ city = Mumbai
  /\ suggestions = <<>>
  /\ showSuggestions = FALSE
  /\ isLoading = FALSE
  /\ isLocating = FALSE
  /\ timers = {Timeout(<<>>, Mumbai, FALSE)}
  /\ lookups = <<>>
  /\ unchangedFor = 0

\* no route card is mounted
InitCards == cards = <<>>

InitAppIdle ==
  /\ searchParams = [origin |-> "", destination |-> "", city |-> "Mumbai"]
  /\ routes = <<>>
  /\ loading = FALSE
  /\ searched = FALSE
  /\ error = Null
  /\ showComparison = FALSE
  /\ sortBy = "duration"
  /\ sortOrder = "asc"
  /\ pending = <<>>

InitNorm == InitGetRoutes /\ InitAppIdle /\ InitAddress /\ InitCards

NextNorm ==
  /\ \/ ReturnEmpty
     \/ ParseJson
     \/ ForOf
     \/ ReturnUnique
     \/ CatchRethrow
  /\ UNCHANGED <<appVars, addressVars, cardVars>>

SpecNorm == InitNorm /\ [][NextNorm]_vars
(***************************************************************************)
(* Properties of the de-duplication pass (checked under SpecNorm).         *)
(***************************************************************************)
\* the parsed response as it was before the loop touched any object
Input == jsonStr.value

SignatureFields == {"title", "totalCost", "totalDuration"}

\* A route's identity: (title lower-cased and trimmed, totalCost,
\* totalDuration); an absent property is an absent component
Signature(route) ==
  [f \in DOMAIN route \cap SignatureFields |->
     IF f = "title" THEN trim(toLowerCase(route.title)) ELSE route[f]]

ReturnedArray == pc = "returned" /\ jsonStr.kind = "array"

IsFirstOccurrence(in, p) ==
  \A q \in 1..(p - 1) : Signature(in[q]) # Signature(in[p])

HasLaterDuplicate(in, p) ==
  \E q \in (p + 1)..Len(in) : Signature(in[q]) = Signature(in[p])

FirstOccurrencePositions(in) ==
  SelectSeq([p \in 1..Len(in) |-> p], LAMBDA p : IsFirstOccurrence(in, p))

\* the elements of s without repetitions, in order of first appearance
FirstSeen(s) ==
  LET keep == SelectSeq([k \in 1..Len(s) |-> k],
                        LAMBDA k : \A j \in 1..(k - 1) : s[j] # s[k])
  IN [k \in 1..Len(keep) |-> s[keep[k]]]

\* old tags first, then the tags of dup that old does not have
UnionInOrder(old, dup) ==
  FirstSeen(old) \o
    FirstSeen(SelectSeq(dup, LAMBDA t : \A j \in 1..Len(old) : old[j] # t))

Elements(s) == { s[k] : k \in 1..Len(s) }

\* C1: the returned array has no two entries with the same signature, and
\* every signature of the input occurs in exactly one returned entry.
DedupSignaturesUnique ==
  ReturnedArray =>
    LET out == Returned IN
      /\ \A j, k \in 1..Len(out) :
            j # k => Signature(out[j]) # Signature(out[k])
      /\ \A p \in 1..Len(Input) :
            Cardinality({ k \in 1..Len(out) :
                            Signature(out[k]) = Signature(Input[p]) }) = 1

\* three candidates, two of them the same route under differently written titles
DedupSignaturesUniqueWitness ==
  /\ ReturnedArray
  /\ Len(Input) = 3
  /\ Len(Returned) = 2
  /\ \E p, q \in 1..3 :
        /\ p # q
        /\ Signature(Input[p]) = Signature(Input[q])
        /\ Input[p].title # Input[q].title

\* C2: the returned array lists the first occurrence of each signature in
\* input order; an input with pairwise distinct signatures (the empty one
\* included) is returned unchanged, entry for entry.
DedupKeepsFirstSeenOrder ==
  ReturnedArray =>
    LET pos == FirstOccurrencePositions(Input)
        out == Returned
    IN /\ Len(out) = Len(pos)
       /\ \A k \in 1..Len(pos) : Signature(out[k]) = Signature(Input[pos[k]])
       /\ (Len(pos) = Len(Input) => out = Input)

\* a duplicate sits between two first occurrences
DedupKeepsFirstSeenOrderWitness ==
  /\ ReturnedArray
  /\ Len(Input) = 3
  /\ uniqueRoutes = <<1, 3>>

\* C3: processing a route whose signature was already seen replaces the kept
\* entry's tags by the union, existing tags first and then the duplicate's
\* tags that were not present; at return the kept entry carries every tag of
\* every input route with its signature.
TagsMergedInOrder ==
  [][ /\ ( /\ pc = "for" /\ pc' = "for" /\ idx' = idx + 1
           /\ uniqueRoutes' = uniqueRoutes )
         => \A k \in 1..Len(uniqueRoutes) :
               Signature(rawRoutes[uniqueRoutes[k]]) = Signature(rawRoutes[idx])
                 => rawRoutes'[uniqueRoutes[k]].tags =
                      UnionInOrder(rawRoutes[uniqueRoutes[k]].tags,
                                   rawRoutes[idx].tags)
      /\ ( pc # "returned" /\ pc' = "returned" /\ jsonStr.kind = "array" )
         => \A k \in 1..Len(Returned') : \A p \in 1..Len(Input) :
               ( /\ Signature(Input[p]) = Signature(Returned'[k])
                 /\ Has(Input[p], "tags") )
                 => /\ Has(Returned'[k], "tags")
                    /\ Elements(Input[p].tags) \subseteq Elements(Returned'[k].tags)
    ]_vars

\* "Metro+Walk" [Fastest] followed by "metro+walk " [Cheapest]
TagsMergedInOrderWitness ==
  /\ ReturnedArray
  /\ Len(Input) = 2
  /\ Len(Returned) = 1
  /\ Input[1].tags = <<"Fastest">>
  /\ Input[2].tags = <<"Cheapest">>
  /\ Returned[1].tags = <<"Fastest", "Cheapest">>

\* C4: every field of a returned entry other than tags has the value of the
\* first input route with that signature.
KeptFieldsAreFirstSeen ==
  ReturnedArray =>
    \A k \in 1..Len(Returned) :
      LET p == CHOOSE q \in 1..Len(Input) :
                 /\ Signature(Input[q]) = Signature(Returned[k])
                 /\ IsFirstOccurrence(Input, q)
      IN Without(Returned[k], "tags") = Without(Input[p], "tags")

\* a later duplicate with another id and other numbers was merged away
KeptFieldsAreFirstSeenWitness ==
  /\ ReturnedArray
  /\ \E p \in 1..Len(Input) :
        /\ ~IsFirstOccurrence(Input, p)
        /\ \A k \in 1..Len(Returned) : Returned[k].id # Input[p].id

\* C5: the pass applied to its own result returns that result.
DedupIdempotent ==
  ReturnedArray => Dedup(Returned) = [threw |-> FALSE, value |-> Returned]

\* a result of two entries, one of which received tags from a duplicate
DedupIdempotentWitness ==
  /\ ReturnedArray
  /\ Len(Returned) = 2
  /\ \E k \in 1..2 : Returned[k] # Input[uniqueRoutes[k]]

\* C6: no returned route has a repeated tag, also a route that occurs once
\* and whose own tags repeat a tag.
ReturnedTagsHaveNoRepeats ==
  ReturnedArray =>
    \A k \in 1..Len(Returned) :
      Has(Returned[k], "tags") =>
        \A i, j \in 1..Len(Returned[k].tags) :
          i # j => Returned[k].tags[i] # Returned[k].tags[j]

\* C7: an input with a route that lacks title, totalCost or totalDuration
\* makes the pass fail; it never returns an array for such an input.
MissingSignatureFieldFails ==
  ReturnedArray =>
    \A p \in 1..Len(Input) : SignatureFields \subseteq DOMAIN Input[p]

\* C8: the pass never fails because tags is missing: when the response
\* parses and every route has its signature fields, it does not throw.
MissingTagsNeverFails ==
  ( /\ jsonStr.kind = "array"
    /\ \A p \in 1..Len(Input) : SignatureFields \subseteq DOMAIN Input[p] )
    => pc \notin {"catch", "rejected"}

\* C9 as stated: at return every raw object has the field values it had
\* before the pass.
RawInputUntouched == ReturnedArray => rawRoutes = Input

\* C9 amended: at return a raw object either is as it was, or it is the first
\* occurrence of a signature that has later duplicates and only its tags
\* have changed.
RawInputOnlyKeptTagsChange ==
  ReturnedArray =>
    \A p \in 1..Len(Input) :
      \/ rawRoutes[p] = Input[p]
      \/ /\ IsFirstOccurrence(Input, p)
         /\ HasLaterDuplicate(Input, p)
         /\ Without(rawRoutes[p], "tags") = Without(Input[p], "tags")

\* the pass wrote merged tags into the first raw object
RawInputOnlyKeptTagsChangeWitness ==
  /\ ReturnedArray
  /\ Len(Input) >= 2
  /\ rawRoutes[1] # Input[1]
  /\ rawRoutes[2] = Input[2]
(***************************************************************************)
(* App: the search screen (src/App.tsx).  getRoutes settles in one step    *)
(* here; its result is computed by Dedup, the loop modelled above.         *)
(***************************************************************************)
CITIES == {"Mumbai", "Bangalore", "Pune", "Delhi", "Chennai"}

ErrorMessage == "We couldn't calculate the route at this moment. Please try again."

SortTypes == {"duration", "cost", "co2"}
SortOrders == {"asc", "desc"}

\* texts typed into the two address fields
Origins == {"", "Andheri Station"}
Destinations == {"", "BKC"}

Candidate(title, cost, duration, saved, tags) ==
  [title |-> title, totalCost |-> cost, totalDuration |-> duration,
   co2Saved |-> saved, tags |-> tags]

\* candidates of the responses the App receives: ties and distinct values in
\* each of the three sort fields, and one pair with the same signature
AppShapes ==
  { Candidate(<<"A", "b">>, 40, 35, 12, <<"Fastest">>),
    Candidate(<<"a", "b", " ">>, 40, 35, 5, <<"Cheapest">>),
    Candidate(<<"A", "b">>, 15, 35, 12, <<"Cheapest">>),
    Candidate(<<"B">>, 0, 50, 28, <<"Greenest">>),
    Candidate(<<"B">>, 40, 20, -3, <<>>) }

\* how a generateContent call can end: the request fails, or it answers a text
ServiceAnswers ==
  { [kind |-> "request failed", value |-> <<>>],
    [kind |-> "empty", value |-> <<>>], [kind |-> "malformed", value |-> <<>>] }
    \cup { [kind |-> "array", value |-> Candidates(s)] :
             s \in UNION { [1..n -> AppShapes] : n \in 0..MaxLen } }

\* what the promise of getRoutes settles with: a rejected request and a
\* SyntaxError of JSON.parse go through the catch, which rethrows
GetRoutesOutcome(answer) ==
  IF answer.kind = "request failed" THEN [threw |-> TRUE, value |-> <<>>]
  ELSE IF answer.kind = "empty" THEN [threw |-> FALSE, value |-> <<>>]
  ELSE IF answer.kind = "malformed" THEN [threw |-> TRUE, value |-> <<>>]
  ELSE Dedup(answer.value)

InitGetRoutesIdle ==
  /\ jsonStr = [kind |-> "empty", value |-> <<>>]
  /\ rawRoutes = <<>>
  /\ uniqueRoutes = <<>>
  /\ seenSignatures = {}
  /\ idx = 1
  /\ pc = "idle"

Init == InitAppIdle /\ InitGetRoutesIdle /\ InitAddress /\ InitCards

\* onChange of the city select
SetCity ==
  /\ \E c \in CITIES :
       /\ c # searchParams.city
       /\ searchParams' = [searchParams EXCEPT !.city = c]
  /\ UNCHANGED <<routes, loading, searched, error, showComparison, sortBy,
                 sortOrder, pending>>

\* onChange of the origin AddressAutocomplete
SetOrigin ==
  /\ \E val \in Origins :
       /\ val # searchParams.origin
       /\ searchParams' = [searchParams EXCEPT !.origin = val]
  /\ UNCHANGED <<routes, loading, searched, error, showComparison, sortBy,
                 sortOrder, pending>>

\* onChange of the destination AddressAutocomplete
SetDestination ==
  /\ \E val \in Destinations :
       /\ val # searchParams.destination
       /\ searchParams' = [searchParams EXCEPT !.destination = val]
  /\ UNCHANGED <<routes, loading, searched, error, showComparison, sortBy,
                 sortOrder, pending>>

\* !searchParams.origin || !searchParams.destination
MissingPlace == searchParams.origin = "" \/ searchParams.destination = ""

\* a handleSearch without the early return
HandleSearchUnchecked ==
  /\ ~loading
  /\ loading' = TRUE
  /\ error' = Null
  /\ searched' = TRUE
  /\ routes' = <<>>
  /\ showComparison' = FALSE
  /\ pending' = Append(pending, searchParams)
  /\ UNCHANGED <<searchParams, sortBy, sortOrder>>

\* a handleSearch without setRoutes([])
HandleSearchKeepsRoutes ==
  /\ ~loading
  /\ IF MissingPlace
     THEN UNCHANGED <<loading, error, searched, routes, showComparison, pending>>
     ELSE /\ loading' = TRUE
          /\ error' = Null
          /\ searched' = TRUE
          /\ routes' = routes
          /\ showComparison' = FALSE
          /\ pending' = Append(pending, searchParams)
  /\ UNCHANGED <<searchParams, sortBy, sortOrder>>

\* a submit control that is not disabled while loading
HandleSearchWhileLoading ==
  /\ IF MissingPlace
     THEN UNCHANGED <<loading, error, searched, routes, showComparison, pending>>
     ELSE /\ loading' = TRUE
          /\ error' = Null
          /\ searched' = TRUE
          /\ routes' = <<>>
          /\ showComparison' = FALSE
          /\ pending' = Append(pending, searchParams)
  /\ UNCHANGED <<searchParams, sortBy, sortOrder>>

\* a handleSearch without setError(null)
HandleSearchKeepsError ==
  /\ ~loading
  /\ IF MissingPlace
     THEN UNCHANGED <<loading, error, searched, routes, showComparison, pending>>
     ELSE /\ loading' = TRUE
          /\ error' = error
          /\ searched' = TRUE
          /\ routes' = <<>>
          /\ showComparison' = FALSE
          /\ pending' = Append(pending, searchParams)
  /\ UNCHANGED <<searchParams, sortBy, sortOrder>>

\* handleSearch up to the await (onSubmit of the form; the submit button is
\* disabled while loading): the early return, or the five state updates and
\* the call of getRoutes
HandleSearch ==
  /\ ~loading
  /\ IF MissingPlace
     THEN UNCHANGED <<loading, error, searched, routes, showComparison, pending>>
     ELSE /\ loading' = TRUE
          /\ error' = Null
          /\ searched' = TRUE
          /\ routes' = <<>>
          /\ showComparison' = FALSE
          /\ pending' = Append(pending, searchParams)
  /\ UNCHANGED <<searchParams, sortBy, sortOrder>>

\* the awaited getRoutes resolves: setRoutes(results); finally setLoading(false)
GetRoutesResolvesWith(answers) ==
  /\ pending # <<>>
  /\ \E answer \in answers :
       /\ ~GetRoutesOutcome(answer).threw
       /\ routes' = GetRoutesOutcome(answer).value
  /\ loading' = FALSE
  /\ pending' = Tail(pending)
  /\ UNCHANGED <<searchParams, searched, error, showComparison, sortBy, sortOrder>>

GetRoutesResolves == GetRoutesResolvesWith(ServiceAnswers)

\* a handleSearch without the finally block
GetRoutesRejectsNoFinally(answers) ==
  /\ pending # <<>>
  /\ error' = ErrorMessage
  /\ loading' = loading
  /\ pending' = Tail(pending)
  /\ UNCHANGED <<searchParams, routes, searched, showComparison, sortBy, sortOrder>>
  /\ \E answer \in answers : GetRoutesOutcome(answer).threw

\* the awaited getRoutes rejects (the request failed, or the catch of
\* getRoutes rethrew): setError(...); finally setLoading(false)
GetRoutesRejectsWith(answers) ==
  /\ pending # <<>>
  /\ error' = ErrorMessage
  /\ loading' = FALSE
  /\ pending' = Tail(pending)
  /\ UNCHANGED <<searchParams, routes, searched, showComparison, sortBy, sortOrder>>
  /\ \E answer \in answers : GetRoutesOutcome(answer).threw

GetRoutesRejects == GetRoutesRejectsWith(ServiceAnswers)

(***************************************************************************)
(* sortedRoutes (useMemo, App.tsx 93-122).                                 *)
(***************************************************************************)
\* the field the switch of the comparator reads for a sort key
KeyField(by) ==
  CASE by = "duration" -> "totalDuration"
    [] by = "cost" -> "totalCost"
    [] by = "co2" -> "co2Saved"

\* valA - valB is NaN when a value is undefined (the property is absent)
ComparatorIsNaN(a, b, by) == ~Has(a, KeyField(by)) \/ ~Has(b, KeyField(by))

\* a comparator that sorts co2 largest-first when asked for asc
SortCompareGreenFirst(a, b, by, order) ==
  LET valA == IF by = "duration" THEN a.totalDuration
              ELSE IF by = "cost" THEN a.totalCost ELSE a.co2Saved
      valB == IF by = "duration" THEN b.totalDuration
              ELSE IF by = "cost" THEN b.totalCost ELSE b.co2Saved
  IN IF by = "co2" THEN (IF order = "asc" THEN valB - valA ELSE valA - valB)
     ELSE (IF order = "asc" THEN valA - valB ELSE valB - valA)

\* a comparator that never answers 0: equal values count as "a after b"
SortCompareStrict(a, b, by, order) ==
  LET valA == IF by = "duration" THEN a.totalDuration
              ELSE IF by = "cost" THEN a.totalCost ELSE a.co2Saved
      valB == IF by = "duration" THEN b.totalDuration
              ELSE IF by = "cost" THEN b.totalCost ELSE b.co2Saved
  IN IF order = "asc" THEN (IF valA < valB THEN -1 ELSE 1)
     ELSE (IF valB < valA THEN -1 ELSE 1)

\* a comparator that forgets the descending branch
SortCompareIgnoresOrder(a, b, by, order) ==
  LET valA == IF by = "duration" THEN a.totalDuration
              ELSE IF by = "cost" THEN a.totalCost ELSE a.co2Saved
      valB == IF by = "duration" THEN b.totalDuration
              ELSE IF by = "cost" THEN b.totalCost ELSE b.co2Saved
  IN valA - valB

\* the comparator passed to sort, as Array.prototype.sort reads it: a NaN
\* answer counts as +0 (ECMAScript SortCompare)
SortCompare(a, b, by, order) ==
  LET valA == IF by = "duration" THEN a.totalDuration
              ELSE IF by = "cost" THEN a.totalCost ELSE a.co2Saved
      valB == IF by = "duration" THEN b.totalDuration
              ELSE IF by = "cost" THEN b.totalCost ELSE b.co2Saved
  IN IF ComparatorIsNaN(a, b, by) THEN 0
     ELSE IF order = "asc" THEN valA - valB ELSE valB - valA

\* x placed behind every element that does not compare greater than x
RECURSIVE SortInsert(_, _, _, _)
SortInsert(sorted, x, by, order) ==
  IF sorted = <<>> THEN <<x>>
  ELSE LET last == sorted[Len(sorted)] IN
       IF SortCompare(last, x, by, order) > 0
       THEN Append(SortInsert(SubSeq(sorted, 1, Len(sorted) - 1), x, by, order), last)
       ELSE Append(sorted, x)

\* Array.prototype.sort with a comparator: a stable sort (ECMAScript 2019)
RECURSIVE ArraySort(_, _, _)
ArraySort(arr, by, order) ==
  IF arr = <<>> THEN <<>>
  ELSE SortInsert(ArraySort(SubSeq(arr, 1, Len(arr) - 1), by, order),
                  arr[Len(arr)], by, order)

SortedRoutes(by, order) ==
  IF Len(routes) = 0 THEN <<>> ELSE ArraySort(routes, by, order)

sortedRoutes == SortedRoutes(sortBy, sortOrder)

\* the results toolbar (Compare button, sort buttons) is rendered
ToolbarShown == searched /\ ~loading /\ error = Null

\* routes.sort(...): the memo sorts the state array itself
RoutesSortedInPlace(arr, by, order) ==
  IF Len(arr) = 0 THEN arr ELSE ArraySort(arr, by, order)

\* the routes state after sortedRoutes was recomputed for (by, order):
\* [...routes].sort(...) sorts a copy and leaves the state array as it is
RoutesAfterSort(arr, by, order) == arr

\* the default order of co2 is not special
ToggleSortAlwaysAsc(type) ==
  /\ ToolbarShown
  /\ IF sortBy = type
     THEN /\ sortOrder' = (IF sortOrder = "asc" THEN "desc" ELSE "asc")
          /\ sortBy' = sortBy
     ELSE /\ sortBy' = type
          /\ sortOrder' = "asc"
  /\ routes' = RoutesAfterSort(routes, sortBy', sortOrder')
  /\ UNCHANGED <<searchParams, loading, searched, error, showComparison, pending>>

\* toggleSort(type), and the re-render that recomputes sortedRoutes
ToggleSort(type) ==
  /\ ToolbarShown
  /\ IF sortBy = type
     THEN /\ sortOrder' = (IF sortOrder = "asc" THEN "desc" ELSE "asc")
          /\ sortBy' = sortBy
     ELSE /\ sortBy' = type
          /\ sortOrder' = (IF type = "co2" THEN "desc" ELSE "asc")
  /\ routes' = RoutesAfterSort(routes, sortBy', sortOrder')
  /\ UNCHANGED <<searchParams, loading, searched, error, showComparison, pending>>

\* onClick of the Compare button
OpenComparison ==
  /\ ToolbarShown
  /\ ~showComparison
  /\ showComparison' = TRUE
  /\ UNCHANGED <<searchParams, routes, loading, searched, error, sortBy,
                 sortOrder, pending>>

\* onClick of the X button of the comparison modal
CloseComparison ==
  /\ showComparison
  /\ Len(routes) > 0
  /\ showComparison' = FALSE
  /\ UNCHANGED <<searchParams, routes, loading, searched, error, sortBy,
                 sortOrder, pending>>

Next ==
  /\ \/ SetCity
     \/ SetOrigin
     \/ SetDestination
     \/ HandleSearch
     \/ GetRoutesResolves
     \/ GetRoutesRejects
     \/ \E type \in SortTypes : ToggleSort(type)
     \/ OpenComparison
     \/ CloseComparison
  /\ UNCHANGED <<getRoutesVars, addressVars, cardVars>>

Spec == Init /\ [][Next]_vars

(***************************************************************************)
(* Properties of the ranking (checked under Spec).                         *)
(***************************************************************************)
Occurrences(s, x) == Cardinality({ k \in 1..Len(s) : s[k] = x })

IsPermutation(s, t) ==
  /\ Len(s) = Len(t)
  /\ \A k \in 1..Len(t) : Occurrences(s, t[k]) = Occurrences(t, t[k])

\* C10: for each sort key and order the sorted list is a permutation of
\* routes, non-decreasing in the key's field for asc and non-increasing for
\* desc (smaller-first for asc also when the key is co2).
SortedIsOrderedPermutation ==
  \A by \in SortTypes, order \in SortOrders :
    LET sorted == SortedRoutes(by, order)
        f == KeyField(by)
    IN /\ IsPermutation(sorted, routes)
       /\ \A k \in 1..(Len(sorted) - 1) :
            IF order = "asc" THEN sorted[k][f] <= sorted[k + 1][f]
            ELSE sorted[k][f] >= sorted[k + 1][f]

\* three routes with distinct co2Saved that arrived in another order, shown
\* sorted by co2 ascending
SortedIsOrderedPermutationWitness ==
  /\ ToolbarShown
  /\ Len(routes) = 3
  /\ sortBy = "co2"
  /\ sortOrder = "asc"
  /\ routes[1].co2Saved > routes[2].co2Saved
  /\ routes[2].co2Saved < routes[3].co2Saved
  /\ sortedRoutes # routes

\* the position of route x in the list s (the routes of a result differ in id)
PositionIn(s, x) == CHOOSE k \in 1..Len(s) : s[k] = x

\* C11: two routes with equal value of the sort field keep, in the sorted
\* list, the relative order they have in routes, for asc and for desc.
SortIsStable ==
  \A by \in SortTypes, order \in SortOrders :
    LET sorted == SortedRoutes(by, order)
        f == KeyField(by)
    IN \A i, j \in 1..Len(routes) :
         (i < j /\ routes[i][f] = routes[j][f])
           => PositionIn(sorted, routes[i]) < PositionIn(sorted, routes[j])

\* two routes tie on duration, a third one is faster and arrived last;
\* shown by duration, descending
SortIsStableWitness ==
  /\ ToolbarShown
  /\ Len(routes) = 3
  /\ sortBy = "duration"
  /\ sortOrder = "desc"
  /\ routes[1].totalDuration = routes[3].totalDuration
  /\ routes[2].totalDuration > routes[1].totalDuration
  /\ sortedRoutes = <<routes[2], routes[1], routes[3]>>

Reverse(s) == [k \in 1..Len(s) |-> s[Len(s) + 1 - k]]

DistinctIn(s, f) == \A i, j \in 1..Len(s) : i # j => s[i][f] # s[j][f]

\* C12: when the values of the sort field are pairwise distinct, the list
\* sorted asc, reversed, is the list sorted desc.
AscReversedIsDesc ==
  \A by \in SortTypes :
    DistinctIn(routes, KeyField(by))
      => Reverse(SortedRoutes(by, "asc")) = SortedRoutes(by, "desc")

\* three routes with three different costs, shown by cost
AscReversedIsDescWitness ==
  /\ ToolbarShown
  /\ Len(routes) = 3
  /\ DistinctIn(routes, "totalCost")
  /\ sortBy = "cost"
  /\ sortOrder = "desc"
  /\ sortedRoutes # routes
  /\ Reverse(sortedRoutes) # routes

(***************************************************************************)
(* bestStats (useMemo, App.tsx 125-136) and what is rendered from it.      *)
(***************************************************************************)
\* null as the value of bestStats: no property can be read from it
NoStats == <<>>

\* routes.map(r => r.f)
MapField(arr, f) == [k \in 1..Len(arr) |-> arr[k][f]]

\* Math.min(...list) of a non-empty list of numbers
RECURSIVE MathMin(_)
MathMin(list) ==
  IF Len(list) = 1 THEN list[1]
  ELSE LET m == MathMin(Tail(list)) IN IF list[1] < m THEN list[1] ELSE m

\* Math.max(...list) of a non-empty list of numbers
RECURSIVE MathMax(_)
MathMax(list) ==
  IF Len(list) = 1 THEN list[1]
  ELSE LET m == MathMax(Tail(list)) IN IF list[1] > m THEN list[1] ELSE m

\* the least co2Saved taken for the best one
BestStatsOfLeastSaved(rs) ==
  IF Len(rs) = 0 THEN NoStats
  ELSE [minDuration |-> MathMin(MapField(rs, "totalDuration")),
        minCost |-> MathMin(MapField(rs, "totalCost")),
        maxSaved |-> MathMin(MapField(rs, "co2Saved"))]

BestStatsOf(rs) ==
  IF Len(rs) = 0 THEN NoStats
  ELSE [minDuration |-> MathMin(MapField(rs, "totalDuration")),
        minCost |-> MathMin(MapField(rs, "totalCost")),
        maxSaved |-> MathMax(MapField(rs, "co2Saved"))]

bestStats == BestStatsOf(routes)

\* val === stats?.f : false when stats is null
EqualsStat(val, stats, f) == Has(stats, f) /\ val = stats[f]

\* badges read from the tags the service attached to the route
BadgesFromTags(route, stats) ==
  [isFastest |-> "Fastest" \in { route.tags[k] : k \in 1..Len(route.tags) },
   isCheapest |-> "Cheapest" \in { route.tags[k] : k \in 1..Len(route.tags) },
   isGreenest |-> "Greenest" \in { route.tags[k] : k \in 1..Len(route.tags) }]

\* the bestStats prop of a RouteCard (App.tsx 314-318); the "Best For" cell of
\* the comparison table evaluates the same three comparisons (386-388)
Badges(route, stats) ==
  [isFastest |-> EqualsStat(route.totalDuration, stats, "minDuration"),
   isCheapest |-> EqualsStat(route.totalCost, stats, "minCost"),
   isGreenest |-> EqualsStat(route.co2Saved, stats, "maxSaved")]

\* the RouteCard elements rendered: sortedRoutes.map inside the results block
DisplayedCards ==
  IF ToolbarShown
  THEN [k \in 1..Len(sortedRoutes) |->
          [route |-> sortedRoutes[k],
           origin |-> searchParams.origin,
           destination |-> searchParams.destination,
           bestStats |-> Badges(sortedRoutes[k], bestStats)]]
  ELSE <<>>

ComparisonShown == showComparison /\ Len(routes) > 0

\* the rows of the comparison table: routes.map, in the order of routes
ComparisonRows ==
  IF ComparisonShown
  THEN [k \in 1..Len(routes) |->
          [title |-> routes[k].title,
           totalDuration |-> routes[k].totalDuration,
           totalCost |-> routes[k].totalCost,
           co2Saved |-> routes[k].co2Saved,
           bestFor |-> Badges(routes[k], bestStats)]]
  ELSE <<>>

\* C13: bestStats is null exactly when routes is empty; otherwise
\* minDuration, minCost and maxSaved are the least totalDuration, the least
\* totalCost and the greatest co2Saved, each attained by some route.
BestStatsAreExtremes ==
  /\ (bestStats = NoStats) <=> (Len(routes) = 0)
  /\ Len(routes) > 0 =>
       /\ \A k \in 1..Len(routes) :
            /\ bestStats.minDuration <= routes[k].totalDuration
            /\ bestStats.minCost <= routes[k].totalCost
            /\ bestStats.maxSaved >= routes[k].co2Saved
       /\ \E k \in 1..Len(routes) : bestStats.minDuration = routes[k].totalDuration
       /\ \E k \in 1..Len(routes) : bestStats.minCost = routes[k].totalCost
       /\ \E k \in 1..Len(routes) : bestStats.maxSaved = routes[k].co2Saved

\* three routes; the fastest, the cheapest and the greenest are not all the
\* same route and none of the extremes is at the first position
BestStatsAreExtremesWitness ==
  /\ Len(routes) = 3
  /\ bestStats = [minDuration |-> 20, minCost |-> 0, maxSaved |-> 28]
  /\ routes[1].totalDuration = 35
  /\ routes[1].totalCost = 40
  /\ routes[1].co2Saved = 12

IsLeast(rs, f, v) == \A k \in 1..Len(rs) : v <= rs[k][f]
IsGreatest(rs, f, v) == \A k \in 1..Len(rs) : v >= rs[k][f]

SparseShapes ==
  { Candidate(<<"A", "b">>, 40, 35, 12, <<"Fastest">>),
    Candidate(<<"B">>, 0, 50, 5, <<"Greenest">>),
    Without(Candidate(<<"B">>, 15, 20, 0, <<"Cheapest">>), "co2Saved"),
    Candidate(<<"C">>, 25, 30, 8, <<>>) @@ [steps |-> <<>>] }

\* the candidates of a response; a shape without co2Saved stays without it,
\* and a shape that carries its steps keeps them
SparseCandidates(s) ==
  [p \in 1..Len(s) |->
     IF Has(s[p], "co2Saved") THEN s[p] @@ Payload(p)
     ELSE Without(s[p] @@ Payload(p), "co2Saved")]

SparseAnswers ==
  { [kind |-> "request failed", value |-> <<>>],
    [kind |-> "empty", value |-> <<>>], [kind |-> "malformed", value |-> <<>>] }
    \cup { [kind |-> "array", value |-> SparseCandidates(s)] :
             s \in UNION { [1..n -> SparseShapes] : n \in 0..MaxLen } }

GetRoutesResolvesSparse == GetRoutesResolvesWith(SparseAnswers)

GetRoutesRejectsSparse == GetRoutesRejectsWith(SparseAnswers)

NextSparse ==
  /\ \/ SetCity
     \/ SetOrigin
     \/ SetDestination
     \/ HandleSearch
     \/ GetRoutesResolvesSparse
     \/ GetRoutesRejectsSparse
     \/ \E type \in SortTypes : ToggleSort(type)
     \/ OpenComparison
     \/ CloseComparison
  /\ UNCHANGED <<getRoutesVars, addressVars, cardVars>>

SpecSparse == Init /\ [][NextSparse]_vars

\* comparefn is a consistent comparator for the elements of arr (ECMAScript,
\* Array.prototype.sort): its answers define a strict weak ordering
ConsistentComparator(arr, by, order) ==
  LET c(i, j) == SortCompare(arr[i], arr[j], by, order)
      n == Len(arr)
  IN /\ \A i \in 1..n : c(i, i) = 0
     /\ \A i, j \in 1..n : (c(i, j) < 0) <=> (c(j, i) > 0)
     /\ \A i, j, k \in 1..n :
          /\ (c(i, j) = 0 /\ c(j, k) = 0) => c(i, k) = 0
          /\ (c(i, j) < 0 /\ c(j, k) < 0) => c(i, k) < 0

Reorderings(arr) ==
  { [k \in 1..Len(arr) |-> arr[p[k]]] :
      p \in { q \in [1..Len(arr) -> 1..Len(arr)] :
                \A i, j \in 1..Len(arr) : i # j => q[i] # q[j] } }

\* what [...routes].sort(comparefn) can return: the stable sort when
\* comparefn is consistent, otherwise the order is implementation-defined
SortOutcomes(arr, by, order) ==
  IF Len(arr) = 0 THEN { <<>> }
  ELSE IF ConsistentComparator(arr, by, order) THEN { ArraySort(arr, by, order) }
  ELSE Reorderings(arr)

\* C15: with a route whose sort field is NaN the sorted list is still
\* determined, and the NaN routes come after every route with a number for
\* asc and before every such route for desc.
NaNSortsAsGreatest ==
  \A by \in SortTypes, order \in SortOrders :
    LET outs == SortOutcomes(routes, by, order)
        f == KeyField(by)
    IN /\ Cardinality(outs) = 1
       /\ \A s \in outs : \A i, j \in 1..Len(s) :
            (~Has(s[i], f) /\ Has(s[j], f))
              => IF order = "asc" THEN j < i ELSE i < j

(***************************************************************************)
(* Properties of the sort controls (checked under Spec).                   *)
(***************************************************************************)
\* the order a newly selected sort key starts with
DefaultOrder(type) == IF type = "co2" THEN "desc" ELSE "asc"

Flipped(order) == IF order = "asc" THEN "desc" ELSE "asc"

\* C16: selecting the active sort key flips the order and keeps the key;
\* selecting another key makes it the active key with its default order,
\* "desc" for co2 and "asc" for duration and cost, whatever the order was
\* before; the sort state changes in no other way
ToggleSortPolicy ==
  [][ /\ \A type \in SortTypes :
           ToggleSort(type) =>
             IF sortBy = type
             THEN sortBy' = sortBy /\ sortOrder' = Flipped(sortOrder)
             ELSE sortBy' = type /\ sortOrder' = DefaultOrder(type)
      /\ sortBy' # sortBy => sortOrder' = DefaultOrder(sortBy')
      /\ (sortBy' = sortBy /\ sortOrder' # sortOrder) =>
           \E type \in SortTypes : type = sortBy /\ ToggleSort(type)
      /\ sortBy' \in SortTypes /\ sortOrder' \in SortOrders ]_vars

\* co2 was selected (descending) and then selected again
ToggleSortPolicyWitness ==
  /\ sortBy = "co2"
  /\ sortOrder = "asc"

\* C17: a change of the sort key or of the order changes neither the routes
\* state, nor bestStats, nor the rows of the comparison table, nor any other
\* state of the screen; the cards are the same routes in another order
ToggleSortOnlyReorders ==
  [][ (sortBy' # sortBy \/ sortOrder' # sortOrder) =>
        /\ routes' = routes
        /\ bestStats' = bestStats
        /\ ComparisonRows' = ComparisonRows
        /\ IsPermutation(sortedRoutes', sortedRoutes)
        /\ UNCHANGED <<searchParams, loading, searched, error,
                       showComparison, pending>> ]_vars

\* the cards are shown by descending cost, in an order that is not the order
\* of the routes state, below an open comparison table
ToggleSortOnlyReordersWitness ==
  /\ ToolbarShown
  /\ ComparisonShown
  /\ sortBy = "cost"
  /\ sortOrder = "desc"
  /\ Len(routes) >= 2
  /\ sortedRoutes # routes

(***************************************************************************)
(* Properties of a search (checked under Spec).                            *)
(***************************************************************************)
\* C18: a submission with a non-empty origin and a non-empty destination
\* issues exactly one getRoutes request, for the places of the form; a
\* submission with an empty origin or an empty destination issues none and
\* changes no state; nothing but a submission issues a request
SubmitIssuesOneRequest ==
  [][ /\ HandleSearch =>
           IF searchParams.origin = "" \/ searchParams.destination = ""
           THEN UNCHANGED vars
           ELSE pending' = Append(pending, searchParams)
      /\ Len(pending') > Len(pending) =>
           /\ searchParams.origin # ""
           /\ searchParams.destination # ""
           /\ pending' = Append(pending, searchParams)
           /\ HandleSearch ]_vars

\* the one request of a submission for another city than the initial one is
\* in flight
SubmitIssuesOneRequestWitness ==
  /\ Len(pending) = 1
  /\ pending[1] = searchParams
  /\ searchParams.origin # ""
  /\ searchParams.destination # ""
  /\ searchParams.city # "Mumbai"
  /\ loading

\* C19: from the submission of a valid search until its response arrives
\* routes is empty, hence bestStats is null and no card is displayed
PendingSearchShowsNoRoutes ==
  pending # <<>> =>
    /\ routes = <<>>
    /\ bestStats = NoStats
    /\ DisplayedCards = <<>>
    /\ ~ComparisonShown

\* a search is pending after the sort controls of an earlier search, which
\* are rendered with its results, were used
PendingSearchShowsNoRoutesWitness ==
  /\ pending # <<>>
  /\ loading
  /\ sortBy = "cost"
  /\ sortOrder = "desc"

\* the ways a route request fails: the network call rejects, or the text is
\* not JSON
FailedAnswers ==
  { a \in ServiceAnswers : a.kind \in {"request failed", "malformed"} }

\* C20: a failed route request makes getRoutes throw, and handleSearch then
\* ends with error = the user-facing message, routes empty and loading false;
\* no settled request leaves loading true, and an error is never shown
\* together with routes
FailedRequestShowsError ==
  [][ /\ \A a \in FailedAnswers : GetRoutesOutcome(a).threw
      /\ GetRoutesRejects =>
           /\ error' = ErrorMessage
           /\ routes' = <<>>
           /\ loading' = FALSE
      /\ Len(pending') < Len(pending) => loading' = FALSE
      /\ error' # Null =>
           /\ error' = ErrorMessage
           /\ routes' = <<>>
           /\ DisplayedCards' = <<>>
           /\ ~ComparisonShown' ]_vars

\* a search has failed: the message is set, nothing is loading, no routes
FailedRequestShowsErrorWitness ==
  /\ error = ErrorMessage
  /\ searched
  /\ ~loading
  /\ routes = <<>>
  /\ pending = <<>>

(***************************************************************************)
(* AddressAutocomplete (src/components/AddressAutocomplete.tsx): one       *)
(* address field.  Time is counted in milliseconds; the geocoding service  *)
(* answers a query with one place whose display name is the query.         *)
(***************************************************************************)
\* fetches of the search endpoint that are followed at the same time
MaxLookups == 2

\* the spans by which time is seen to pass
TickSteps == {200, 400}

\* texts the field is given by typing or by the reverse geocoding
TypedValues ==
  { <<>>, <<"B", "K">>, <<"B", "K", "C">>, <<"2", "2", "1">> }

CityNames == {Mumbai, Pune}

\* `${value}, ${city}`
Query(v, c) == v \o <<",", " ">> \o c

\* the answer of the search endpoint to a query
Nominatim(q) == <<[display_name |-> q, place_id |-> 1]>>

\* String.prototype.split(',')
RECURSIVE SplitAtCommas(_, _)
SplitAtCommas(s, part) ==
  IF s = <<>> THEN <<part>>
  ELSE IF Head(s) = "," THEN <<part>> \o SplitAtCommas(Tail(s), <<>>)
  ELSE SplitAtCommas(Tail(s), Append(part, Head(s)))

\* isNaN(Number(name)) for a text of letters, digits and spaces: the empty
\* text converts to 0 and a run of digits to its number
NumberIsNaN(name) ==
  \E k \in 1..Len(name) :
    name[k] \notin {"0", "1", "2", "3", "4", "5", "6", "7", "8", "9"}

\* the name handleSelect and the reverse geocoding hand to onChange
PlaceName(display_name) ==
  LET split == SplitAtCommas(display_name, <<>>)
      parts == [k \in 1..Len(split) |-> trim(split[k])]
      name == parts[1]
  IN IF Len(parts) > 1 /\ (Len(name) < 3 \/ ~NumberIsNaN(name))
     THEN parts[1] \o <<",", " ">> \o parts[2]
     ELSE name

\* the dependency array of the effect
Deps == <<value, city, showSuggestions>>

\* an effect run that leaves the timeout of the run before it set
RearmNoCleanup(ts, v, c, show) == ts \cup {Timeout(v, c, show)}

\* the effect runs again: the cleanup of the run before clears its timeout,
\* then a timeout is set
Rearm(ts, v, c, show) == {Timeout(v, c, show)}

\* the render that follows a handler: the effect runs when a dependency has
\* changed
Render ==
  /\ timers' = IF Deps' # Deps
               THEN Rearm(timers, value', city', showSuggestions')
               ELSE timers
  /\ unchangedFor' = IF Deps' # Deps THEN 0 ELSE unchangedFor

\* onChange of the input
InputChange ==
  /\ \E v \in TypedValues :
       /\ v # value
       /\ value' = v
  /\ showSuggestions' = TRUE
  /\ UNCHANGED <<city, suggestions, isLoading, isLocating, lookups>>
  /\ Render

\* onFocus of the input
InputFocus ==
  /\ showSuggestions' = TRUE
  /\ UNCHANGED <<value, city, suggestions, isLoading, isLocating, lookups>>
  /\ Render

\* handleClickOutside
ClickOutside ==
  /\ showSuggestions' = FALSE
  /\ UNCHANGED <<value, city, suggestions, isLoading, isLocating, lookups>>
  /\ Render

\* the parent renders the field with another city
CityChange ==
  /\ \E c \in CityNames :
       /\ c # city
       /\ city' = c
  /\ UNCHANGED <<value, suggestions, showSuggestions, isLoading, isLocating,
                 lookups>>
  /\ Render

\* the dropdown lists the suggestions
DropdownLists ==
  showSuggestions /\ Len(value) > 2 /\ ~isLoading /\ Len(suggestions) > 0

\* handleSelect(suggestion), onClick of a line of the dropdown
HandleSelect ==
  /\ DropdownLists
  /\ \E k \in 1..Len(suggestions) :
       value' = PlaceName(suggestions[k].display_name)
  /\ showSuggestions' = FALSE
  /\ UNCHANGED <<city, suggestions, isLoading, isLocating, lookups>>
  /\ Render

\* handleUseCurrentLocation up to the call of getCurrentPosition
HandleUseCurrentLocation ==
  /\ ~isLocating
  /\ isLocating' = TRUE
  /\ UNCHANGED <<value, city, suggestions, showSuggestions, isLoading, lookups>>
  /\ Render

\* the success callback of getCurrentPosition ends: the reverse geocoding
\* answered with a display name and onChange was called, or it did not
LocationFound ==
  /\ isLocating
  /\ \E v \in TypedValues : value' = IF v = <<>> THEN value ELSE PlaceName(v)
  /\ isLocating' = FALSE
  /\ UNCHANGED <<city, suggestions, showSuggestions, isLoading, lookups>>
  /\ Render

\* the error callback of getCurrentPosition
LocationError ==
  /\ isLocating
  /\ isLocating' = FALSE
  /\ UNCHANGED <<value, city, suggestions, showSuggestions, isLoading, lookups>>
  /\ Render

\* time passes
Tick ==
  /\ \E d \in TickSteps :
       /\ timers' = { [t EXCEPT !.left = IF t.left > d THEN t.left - d ELSE 0] :
                        t \in timers }
       /\ unchangedFor' = IF unchangedFor + d < DebounceMs
                          THEN unchangedFor + d ELSE DebounceMs
  /\ UNCHANGED <<value, city, suggestions, showSuggestions, isLoading,
                 isLocating, lookups>>

\* the callback of a timeout runs, up to its await of fetch or to its end
TimerFires ==
  /\ \E t \in timers :
       /\ t.left = 0
       /\ timers' = timers \ {t}
       /\ IF Len(t.value) > 2 /\ t.showSuggestions
          THEN /\ Len(lookups) < MaxLookups
               /\ isLoading' = TRUE
               /\ lookups' = Append(lookups, Query(t.value, t.city))
               /\ UNCHANGED suggestions
          ELSE /\ suggestions' = <<>>
               /\ isLoading' = FALSE
               /\ UNCHANGED lookups
  /\ UNCHANGED <<value, city, showSuggestions, isLocating, unchangedFor>>

\* the array without its element at position k
RemoveAt(s, k) == SubSeq(s, 1, k - 1) \o SubSeq(s, k + 1, Len(s))

\* a callback goes on after its awaits: setSuggestions(data) and the finally
LookupResolves ==
  /\ \E k \in 1..Len(lookups) :
       /\ suggestions' = Nominatim(lookups[k])
       /\ lookups' = RemoveAt(lookups, k)
  /\ isLoading' = FALSE
  /\ UNCHANGED <<value, city, showSuggestions, isLocating, timers, unchangedFor>>

\* fetch or response.json() rejects: the catch and the finally
LookupFails ==
  /\ \E k \in 1..Len(lookups) : lookups' = RemoveAt(lookups, k)
  /\ suggestions' = <<>>
  /\ isLoading' = FALSE
  /\ UNCHANGED <<value, city, showSuggestions, isLocating, timers, unchangedFor>>

NextAddress ==
  /\ \/ InputChange
     \/ InputFocus
     \/ ClickOutside
     \/ CityChange
     \/ HandleSelect
     \/ HandleUseCurrentLocation
     \/ LocationFound
     \/ LocationError
     \/ Tick
     \/ TimerFires
     \/ LookupResolves
     \/ LookupFails
  /\ UNCHANGED <<getRoutesVars, appVars, cardVars>>

SpecAddress == Init /\ [][NextAddress]_vars

(***************************************************************************)
(* Properties of an address field (checked under SpecAddress).             *)
(***************************************************************************)
\* C21: a geocoding fetch is issued only when value, city and
\* showSuggestions have been unchanged for the whole delay, value is longer
\* than 2 characters and the suggestions are shown, and it asks for the
\* value and city of that moment; a change of value, city or
\* showSuggestions leaves no timeout set for the input it supersedes, and
\* the timeout that is set is not due before the delay has passed
DebounceGatesLookup ==
  [][ /\ Len(lookups') > Len(lookups) =>
           /\ unchangedFor >= DebounceMs
           /\ Len(value) > 2
           /\ showSuggestions
           /\ lookups' = Append(lookups, Query(value, city))
      /\ \A t \in timers' :
           /\ <<t.value, t.city, t.showSuggestions>> = Deps'
           /\ t.left >= DebounceMs - unchangedFor'
      /\ Cardinality(timers') <= 1 ]_vars

\* the fetch for the text of the field is in flight, after an earlier text
\* was answered
DebounceGatesLookupWitness ==
  /\ Len(lookups) = 1
  /\ lookups[1] = Query(value, city)
  /\ isLoading
  /\ unchangedFor = DebounceMs
  /\ suggestions # <<>>
  /\ suggestions # Nominatim(Query(value, city))

\* C24: once the timeout for the present value and city has fired with a
\* lookup and every lookup in flight has settled, the suggestions are the
\* answer to the lookup for the present value and city (or empty, if that
\* lookup failed): the answer to an older query has not replaced them
NewestLookupWins ==
  (timers = {} /\ lookups = <<>> /\ Len(value) > 2 /\ showSuggestions) =>
    suggestions \in {Nominatim(Query(value, city)), <<>>}

(***************************************************************************)
(* Properties of the routes that reach the cards.                          *)
(***************************************************************************)
\* C22: every route handed to a RouteCard (the cards are rendered from the
\* elements of routes while the results are shown) has at least one step
DisplayedRoutesHaveSteps ==
  ToolbarShown => \A k \in 1..Len(routes) : Len(routes[k].steps) > 0

(***************************************************************************)
(* RouteCard (src/components/RouteCard.tsx).  The cards are rendered with  *)
(* key={idx} (App.tsx 308-320): the state of a card belongs to its         *)
(* position in the list and stays there when the list is sorted anew.      *)
(***************************************************************************)
\* useState(false), useState('idle'), useState([])
NewCard == [expanded |-> FALSE, journeyState |-> "idle", completedSteps |-> <<>>]

\* the answer the cards are studied with: a route of three steps that is
\* the faster one and a route of two steps that is the cheaper one
CardAnswers ==
  { [kind |-> "array",
     value |-> Candidates(<<
       [steps |-> <<Step, Step, Step>>]
         @@ Candidate(<<"A", "b">>, 40, 20, 12, <<"Fastest">>),
       [steps |-> <<Step, Step>>]
         @@ Candidate(<<"B">>, 15, 35, 5, <<"Cheapest">>) >>)] }

GetRoutesResolvesCard == GetRoutesResolvesWith(CardAnswers)

\* the cards after a render of App: a card stays mounted while its key is
\* rendered, a new key mounts a new card
Reconcile ==
  cards' = [k \in 1..(IF ToolbarShown' THEN Len(routes') ELSE 0) |->
              IF k <= Len(cards) THEN cards[k] ELSE NewCard]

\* the route prop of the card at position k
RouteOf(k) == sortedRoutes[k]

\* completedSteps.includes(idx)
Includes(arr, x) == \E j \in 1..Len(arr) : arr[j] = x

\* Math.round(n / d * 100) for d > 0
MathRoundPercent(n, d) == (200 * n + d) \div (2 * d)

\* progress < 100, the disabled attribute of the finish button; with no
\* steps progress is NaN and the comparison is false
FinishDisabled(card, route) ==
  /\ Len(route.steps) > 0
  /\ MathRoundPercent(Len(card.completedSteps), Len(route.steps)) < 100

\* onClick of the header
ToggleExpanded(k) ==
  /\ cards' = [cards EXCEPT ![k].expanded = ~cards[k].expanded]
  /\ UNCHANGED appVars

\* handleStartJourney: the start button of the standard view and the Open
\* Maps button of the tracker
HandleStartJourney(k) ==
  /\ cards[k].expanded
  /\ cards[k].journeyState \in {"idle", "started"}
  /\ cards' = [cards EXCEPT ![k].journeyState = "started", ![k].expanded = TRUE]
  /\ UNCHANGED appVars

\* toggleStep(idx), onClick of a step of the tracker (idx counts from 0)
ToggleStep(k, i) ==
  /\ cards[k].expanded
  /\ cards[k].journeyState = "started"
  /\ i < Len(RouteOf(k).steps)
  /\ cards' = [cards EXCEPT ![k].completedSteps =
                 IF Includes(@, i) THEN SelectSeq(@, LAMBDA x : x # i)
                 ELSE Append(@, i)]
  /\ UNCHANGED appVars

\* handleCompleteJourney, onClick of the finish button
HandleCompleteJourney(k) ==
  /\ cards[k].expanded
  /\ cards[k].journeyState = "started"
  /\ ~FinishDisabled(cards[k], RouteOf(k))
  /\ cards' = [cards EXCEPT ![k].journeyState = "completed"]
  /\ UNCHANGED appVars

\* the step indexes a user clicks
StepIndexes == 0..2

NextCard ==
  /\ \/ SetOrigin /\ Reconcile
     \/ SetDestination /\ Reconcile
     \/ HandleSearch /\ Reconcile
     \/ GetRoutesResolvesCard /\ Reconcile
     \/ (\E type \in SortTypes : ToggleSort(type)) /\ Reconcile
     \/ \E k \in 1..Len(cards) : ToggleExpanded(k)
     \/ \E k \in 1..Len(cards) : HandleStartJourney(k)
     \/ \E k \in 1..Len(cards), i \in StepIndexes : ToggleStep(k, i)
     \/ \E k \in 1..Len(cards) : HandleCompleteJourney(k)
  /\ UNCHANGED <<getRoutesVars, addressVars>>

SpecCard == Init /\ [][NextCard]_vars

(***************************************************************************)
(* Properties of a route card (checked under SpecCard).                    *)
(***************************************************************************)
\* C23: the journey state of a mounted card moves only from idle to started
\* and from started to completed; it becomes completed only when every step
\* index of the route the card shows is in completedSteps; completed is
\* never left
JourneyMovesForward ==
  [][ \A k \in 1..Len(cards) :
        k <= Len(cards') =>
          LET was == cards[k].journeyState
              is == cards'[k].journeyState
          IN /\ was # is =>
                  \/ was = "idle" /\ is = "started"
                  \/ was = "started" /\ is = "completed"
             /\ (was # is /\ is = "completed") =>
                  \A i \in 0..(Len(RouteOf(k).steps) - 1) :
                    Includes(cards[k].completedSteps, i)
             /\ was = "completed" => is = "completed" ]_vars

\* C25: the origin and destination handed to the displayed cards are those
\* of the request that produced the displayed routes: when the request
\* resolves with routes the cards get the places it was called with, and
\* while the same routes stay displayed the places of the cards do not change
CardsKeepRequestPlaces ==
  [][ /\ (Len(pending') < Len(pending) /\ Len(routes') > 0) =>
           \A k \in 1..Len(DisplayedCards') :
             /\ DisplayedCards'[k].origin = pending[1].origin
             /\ DisplayedCards'[k].destination = pending[1].destination
      /\ (Len(DisplayedCards) > 0 /\ Len(DisplayedCards') > 0 /\ routes' = routes) =>
           \A k \in 1..Len(DisplayedCards) :
             /\ DisplayedCards'[k].origin = DisplayedCards[k].origin
             /\ DisplayedCards'[k].destination = DisplayedCards[k].destination
    ]_vars

\* C26: loading is true exactly while a getRoutes request is outstanding,
\* at most one request is outstanding, and the request a response settles is
\* the one submitted last
OneRequestOutstanding ==
  [][ /\ loading <=> pending # <<>>
      /\ loading' <=> pending' # <<>>
      /\ Len(pending') <= 1
      /\ Len(pending') < Len(pending) =>
           /\ pending[1] = pending[Len(pending)]
           /\ pending' = <<>> ]_vars

\* a second search is outstanding, submitted after the sort controls of the
\* results of a first one were used
OneRequestOutstandingWitness ==
  /\ loading
  /\ Len(pending) = 1
  /\ searched
  /\ sortBy = "co2"
  /\ sortOrder = "asc"

\* C27: an error and routes never exist together; the comparison table is
\* visible only with routes; every search that is submitted closes it
ErrorExcludesResults ==
  [][ /\ error' # Null => routes' = <<>>
      /\ Len(routes') > 0 => error' = Null
      /\ ComparisonShown' => (Len(routes') > 0 /\ error' = Null /\ ~loading')
      /\ Len(pending') > Len(pending) => (~showComparison' /\ ~ComparisonShown')
    ]_vars

\* the comparison table is open over the results of a search
ErrorExcludesResultsWitness ==
  /\ ComparisonShown
  /\ Len(ComparisonRows) = 2
  /\ error = Null
  /\ sortBy = "duration"
  /\ sortOrder = "desc"
====
